---- MODULE Spec2Model ----
(***************************************************************************)
(* Quota ledger, application state machine and operator lock of the       *)
(* crystallography application tracker.                                    *)
(*                                                                         *)
(* Units.  The clock `now` and locked_at count whole hours.  Quota and     *)
(* time_spent amounts count 1/300 of an hour, so that m minutes are        *)
(* exactly 5*m units and a DecimalField(decimal_places=2) column always    *)
(* holds a multiple of 3 (one hundredth of an hour).  Experiment clock     *)
(* times and quota_compensation count minutes.                             *)
(*                                                                         *)
(* A request is a sequence of steps (pc) over a request-local copy of the  *)
(* rows it has read; every step is one database read or one save() with    *)
(* its signal handlers.  Spec runs the requests one after the other,       *)
(* SpecConc interleaves the steps of two requests.                         *)
(***************************************************************************)
EXTENDS Integers, Sequences, FiniteSets, TLC

VARIABLES
    app,        \* the Application row
    probes,     \* proc_status of the application's Probe rows, in number order
    qg,         \* QuotaGroup rows: current_time, quota_reset_time
    txs,        \* QuotaTimeTransaction rows, in insertion order
    now,        \* timezone.now()
    emails,     \* e-mail tasks queued so far, per kind
    debited,    \* hours Laboratory.consume_time has taken from a metered group for the application
    ledger,     \* the balances as they would be had every quota mutation been one atomic update
    nreq,       \* requests started so far
    req,        \* the requests in flight: position and request-local objects
    calc        \* the object a property or classmethod is evaluated on, and what it returned

vars == <<app, probes, qg, txs, now, emails, debited, ledger, nreq, req, calc>>

\* Python's None: of a column or attribute holding text, and of one holding a number.
None == "None"
NoneInt == -1000000

\* ---------------------------------------------------------------- bounds
MaxNow == 2
MaxRequests == 3
MaxProbes == 1

\* ------------------------------------------------------- static entities
Req == {"r1", "r2"}
Operators == {"op1", "op2"}
Groups == {"g1", "g2", "g3", "g4"}

\* period_time = Decimal('-1') marks a group without quota (-1.00 h).
EXEMPT == -300

\* QuotaGroup columns that no modelled operation changes: g1 (2 h per period, at most
\* 3 h) and g2 (1 h per period, no cap) are metered, g3 is unlimited, g4 is exempt.
period_time(g) ==
    CASE g = "g1" -> 600 [] g = "g2" -> 300 [] g = "g3" -> NoneInt [] g = "g4" -> EXEMPT
max_time(g) == IF g = "g1" THEN 900 ELSE NoneInt
main(g) == g = "g1"
update_time_on_period(g) == TRUE
is_active(g) == TRUE
InitialTime(g) ==
    CASE g = "g1" -> 600 [] g = "g2" -> 300 [] g = "g3" -> 0 [] g = "g4" -> 0
MeteredGroups == {"g1", "g2"}

\* The quota group of the application's laboratory (Application.lab.quota_group).
LabGroup == "g1"

\* DiffDevice.time_cons_night_experiment of the application's diffractometer: 12.00 h.
time_cons_night_experiment == 3600

\* Application.operator_lock_cooldown = timedelta(hours=2)
operator_lock_cooldown == 2

\* DecimalField(decimal_places=2): a value is stored rounded to the nearest hundredth.
Quantize(x) == 3 * ((x + 1) \div 3)

\* --------------------------------------------------------- probe statuses
SC_NR == "<"
SC_R == "."
RE_R == "!"
SC_RS == ">"
PW_NR == "("
PW_R == ";"
PW_RS == ")"
TRASH == "x"
NULL == ""
FA_R == "@"
EI_C == "+"
EI_O == "#"
C_REJ == "-"
NC == "~"
LP == "l"

\* Probe.ProcStatus, with None for a null column.
ProcStatus ==
    {NULL, TRASH, SC_NR, SC_R, RE_R, FA_R, SC_RS, PW_NR, PW_R, PW_RS, EI_C, EI_O, C_REJ, NC, LP,
     None}

get_need_reduction_statuses == {SC_NR, PW_NR, RE_R}
get_need_send_statuses == {SC_R, PW_R}
get_sent_statuses == {SC_RS, PW_RS}

\* get_reduced_value sending a repeated reduction back to the queue of raw experiments.
get_reduced_value_requeued(status) ==
    CASE status = SC_NR -> SC_R
      [] status = PW_NR -> PW_R
      [] status = RE_R -> SC_NR
      [] OTHER -> status

get_reduced_value(status) ==
    CASE status = SC_NR -> SC_R
      [] status = PW_NR -> PW_R
      [] status = RE_R -> SC_R
      [] OTHER -> status

get_posted_value(status) ==
    CASE status = SC_R -> SC_RS
      [] status = PW_R -> PW_RS
      [] OTHER -> status

\* need_to_post answering for the single-crystal status only.
need_to_post_single(status) == status = SC_R

need_to_post(status) ==
    CASE status = SC_R -> TRUE
      [] status = PW_R -> TRUE
      [] OTHER -> FALSE

\* ------------------------------------------------------------ the inputs
ProbeInputs == {SC_NR, SC_R}
ProbeLists == UNION {[1..n -> ProbeInputs] : n \in 0..MaxProbes}

NoTimes == [sd |-> NoneInt, st |-> NoneInt, ed |-> NoneInt, et |-> NoneInt]
ExpInputs ==
    { NoTimes,
      [sd |-> 1, st |-> 600, ed |-> 1, et |-> 690],
      [sd |-> 1, st |-> 600, ed |-> 1, et |-> 620],
      [sd |-> 1, st |-> 600, ed |-> 1, et |-> 600],
      [sd |-> 1, st |-> 600, ed |-> 2, et |-> 690] }
QcInputs == {NoneInt, 30}
Actions == {"save", "completed", "rejected"}

\* ---------------------------------------------------- Application model
\* Application.__init__: the instance remembers the loaded time_spent and status.
Load(row) == row @@ [_current_time |-> row.time_spent, _prev_status |-> row.status]

Columns == {"status", "prev_status", "data_status", "prev_data_status", "time_spent",
            "locked_by", "locked_at", "sd", "st", "ed", "et", "quota_compensation",
            "proc_status_application", "probe_count", "reduced_data_dir"}

\* The row an UPDATE of the columns `fields` from instance o leaves in the table.
WriteRow(row, o, fields) == [c \in Columns |-> IF c \in fields THEN o[c] ELSE row[c]]

Truthy(v) == v # NoneInt /\ v # 0

compute_time_spent(sd, st, ed, et, qc) ==
    IF NoneInt \in {sd, st, ed, et} THEN NoneInt
    ELSE IF sd # ed THEN Quantize(time_cons_night_experiment)
    ELSE LET end == IF et < st THEN et + 1440 ELSE et
             delta == (end - st) + (IF Truthy(qc) THEN qc ELSE 0)
         IN  Quantize(5 * delta)

\* signals.application_status_changed comparing with the prev_status column instead of
\* the status the instance remembers.
application_status_changed_column(o) ==
    IF o.status = "completed" /\ o.prev_status # "completed" THEN "completed"
    ELSE IF o.status = "rejected" /\ o.prev_status # "rejected" THEN "rejected"
    ELSE "none"

\* signals.application_status_changed (pre_save): the e-mail the save queues.
application_status_changed(o) ==
    IF o.status = "completed" /\ o._prev_status # "completed" THEN "completed"
    ELSE IF o.status = "rejected" /\ o._prev_status # "rejected" THEN "rejected"
    ELSE "none"

\* signals.application_data_status_changed (post_save).
application_data_status_changed(o) ==
    o.data_status = "DATA_SENT" /\ o.prev_data_status # "DATA_SENT"

\* quotagroup.views.check_if_period_needs_refresh over the rows `groups` and application row.
check_if_period_needs_refresh(groups, row) ==
    LET groups_not_needing_refresh ==
            {g \in Groups : main(g) /\ (groups[g].current_time >= 0
                                        \/ period_time(g) = EXEMPT \/ is_active(g))}
    IN  IF groups_not_needing_refresh = {} THEN TRUE
        ELSE ~(LabGroup \in groups_not_needing_refresh /\ row.status = "submitted")

\* QuotaGroup.reset_quota without the comparison with max_time.
reset_quota_uncapped(g, row) ==
    IF period_time(g) = NoneInt \/ period_time(g) = EXEMPT THEN row
    ELSE [current_time |-> Quantize(row.current_time + period_time(g)),
          quota_reset_time |-> Quantize(row.current_time + period_time(g))]

\* QuotaGroup.reset_quota on one row.
reset_quota(g, row) ==
    IF period_time(g) = NoneInt \/ period_time(g) = EXEMPT THEN row
    ELSE LET sum == row.current_time + period_time(g)
             new_time == IF max_time(g) # NoneInt /\ sum > max_time(g) THEN max_time(g) ELSE sum
         IN  [current_time |-> Quantize(new_time), quota_reset_time |-> Quantize(new_time)]

\* quotagroup.views.refresh_period_time
refresh_period_time(groups) ==
    [g \in Groups |-> IF update_time_on_period(g) THEN reset_quota(g, groups[g]) ELSE groups[g]]

\* signals.handle_application_time (post_save): old_instance is re-read after the write.
handle_application_time(o, rowAfter, groups) ==
    IF rowAfter.status = "submitted" /\ o.status # "submitted"
       /\ check_if_period_needs_refresh(groups, rowAfter)
    THEN refresh_period_time(groups) ELSE groups

\* Laboratory.consume_time of a laboratory whose quota group is g.
consume_time_of(groups, g, hours) ==
    IF period_time(g) \in {NoneInt, EXEMPT} THEN groups
    ELSE [groups EXCEPT ![g].current_time = Quantize(@ - hours)]

\* Laboratory.consume_time of the application's laboratory.
consume_time(groups, hours) == consume_time_of(groups, LabGroup, hours)

Metered(g) == period_time(g) \notin {NoneInt, EXEMPT}

\* models.Model.save(update_fields=fields) with its pre_save and post_save receivers.
\* Result: the row written, the e-mails queued and the group rows after the receivers.
ModelSave(o, row, fields, groups) ==
    LET written == WriteRow(row, o, fields)
    IN  [ o |-> o,
          row |-> written,
          mail |-> application_status_changed(o),
          published |-> IF application_data_status_changed(o) THEN 1 ELSE 0,
          groups |-> handle_application_time(o, written, groups),
          consumed |-> 0 ]

\* Application.save(update_fields=fields): no time computation.
NarrowSave(o, row, fields, groups) ==
    LET o1 == [o EXCEPT !.prev_data_status = row.data_status, !.prev_status = row.status]
        s == ModelSave(o1, row, fields, groups)
    IN  [s EXCEPT !.o = [o1 EXCEPT !._prev_status = o1.status]]

\* Application.save, lines 501-504, charging the whole computed time at every save.
hours_absolute(time_spent_compute, _current_time) == time_spent_compute

\* Application.save, lines 501-504: the hours handed to consume_time.
hours_to_consume(time_spent_compute, _current_time) ==
    IF Truthy(_current_time) THEN time_spent_compute - _current_time ELSE time_spent_compute

\* Application.save() of a persisted instance.
FullSave(o, row, groups) ==
    LET time_spent_compute ==
            compute_time_spent(o.sd, o.st, o.ed, o.et, o.quota_compensation)
        hours == IF ~Truthy(time_spent_compute) THEN 0
                 ELSE hours_to_consume(time_spent_compute, o._current_time)
        groups1 == IF Truthy(time_spent_compute) THEN consume_time(groups, hours) ELSE groups
        o1 == IF Truthy(time_spent_compute) THEN [o EXCEPT !.time_spent = time_spent_compute] ELSE o
        o2 == [o1 EXCEPT !.prev_data_status = row.data_status, !.prev_status = row.status]
        s == ModelSave(o2, row, Columns, groups1)
    IN  [s EXCEPT !.o = [o2 EXCEPT !._prev_status = o2.status],
                  !.consumed = IF Metered(LabGroup) THEN hours ELSE 0]

\* ---------------------------------------------------------------- state
IdleReq ==
    [pc |-> "idle", user |-> None, obj |-> None, diff |-> NoneInt, resp |-> None,
     donor |-> None, acceptor |-> None, donor_quota |-> None, acceptor_quota |-> None,
     time_transfer |-> NoneInt, qgs |-> None, action |-> None, group |-> None]

InitApp ==
    [status |-> "submitted", prev_status |-> None,
     data_status |-> "NO_DATA", prev_data_status |-> "",
     time_spent |-> 0, locked_by |-> None, locked_at |-> NoneInt,
     sd |-> NoneInt, st |-> NoneInt, ed |-> NoneInt, et |-> NoneInt,
     quota_compensation |-> NoneInt,
     proc_status_application |-> <<>>, probe_count |-> 0, reduced_data_dir |-> None]

\* Nothing is being evaluated.
NoCall == [fn |-> "none"]

\* The rows after construction.
Rows ==
    /\ app = InitApp
    /\ probes = <<>>
    /\ qg = [g \in Groups |-> [current_time |-> InitialTime(g), quota_reset_time |-> InitialTime(g)]]
    /\ txs = <<>>
    /\ now = 0
    /\ emails = [completed |-> 0, rejected |-> 0, published |-> 0]
    /\ debited = [total |-> 0, last |-> 0]
    /\ ledger = [g \in Groups |-> [current_time |-> InitialTime(g), quota_reset_time |-> InitialTime(g)]]
    /\ nreq = 0
    /\ req = [r \in Req |-> IdleReq]

Init == Rows /\ calc = NoCall

\* ------------------------------------------------------- shared effects
\* The hours consume_time was asked to take from a metered group: total, and the last
\* non-zero amount.
Debit(d, hours) == IF hours = 0 THEN d ELSE [total |-> d.total + hours, last |-> hours]

Queue(e, mail, published) ==
    [completed |-> e.completed + (IF mail = "completed" THEN 1 ELSE 0),
     rejected |-> e.rejected + (IF mail = "rejected" THEN 1 ELSE 0),
     published |-> e.published + published]

\* The effects of one save on the tables: s is the save run on the group rows, sl the
\* same save run on the ledger.
Apply(s, sl) ==
    /\ app' = s.row
    /\ emails' = Queue(emails, s.mail, s.published)
    /\ qg' = s.groups
    /\ ledger' = sl.groups
    /\ debited' = Debit(debited, s.consumed)

Begin(r) ==
    /\ req[r].pc = "idle"
    /\ nreq < MaxRequests
    /\ nreq' = nreq + 1

Finish(r, resp) == req' = [req EXCEPT ![r] = [IdleReq EXCEPT !.resp = resp]]

\* ------------------------------------------------------------ the clock
Tick ==
    /\ now < MaxNow
    /\ now' = now + 1
    /\ UNCHANGED <<calc, app, probes, qg, txs, emails, debited, ledger, nreq, req>>

\* ------------------------------------------- ApplicationProcessView
LockFields == {"locked_by", "locked_at"}

\* The instance with its lock fields left as they are.
StillLocked(o) == o

\* locked_by = None, locked_at = None on the instance.
Unlocked(o) == [o EXCEPT !.locked_by = None, !.locked_at = NoneInt]
AggFields == {"proc_status_application", "probe_count"}

\* dispatch, line 775: self.object = self.get_object()
DispatchRead(r, users) ==
    /\ Begin(r)
    /\ \E u \in users :
         req' = [req EXCEPT ![r] = [IdleReq EXCEPT !.pc = "dispatch", !.user = u, !.obj = Load(app)]]
    /\ UNCHANGED <<calc, app, probes, qg, txs, now, emails, debited, ledger>>

\* dispatch, lines 786-796, with the comparison off by one hour.
lock_is_held_early(o, user, t) ==
    o.locked_by # None /\ o.locked_by # user /\ t - o.locked_at < operator_lock_cooldown - 1

\* dispatch, lines 786-796, with the lock still held at the cooldown itself.
lock_is_held_inclusive(o, user, t) ==
    o.locked_by # None /\ o.locked_by # user /\ t - o.locked_at <= operator_lock_cooldown

\* dispatch, lines 786-796: another user holds the lock read and it is younger than the
\* cooldown.
lock_is_held(o, user, t) ==
    o.locked_by # None /\ o.locked_by # user /\ t - o.locked_at < operator_lock_cooldown

\* dispatch, lines 786-802: the decision on the lock read, and the narrow save.
DispatchLock(r) ==
    /\ req[r].pc = "dispatch"
    /\ LET o == req[r].obj
           foreign == o.locked_by # None /\ o.locked_by # req[r].user
           diff == IF foreign THEN now - o.locked_at ELSE NoneInt
       IN  IF lock_is_held(o, req[r].user, now)
           THEN /\ Finish(r, "denied")
                /\ UNCHANGED <<calc, app, qg, emails, debited, ledger>>
           ELSE LET o1 == [o EXCEPT !.locked_by = req[r].user, !.locked_at = now]
                    s == NarrowSave(o1, app, LockFields, qg)
                    sl == NarrowSave(o1, app, LockFields, ledger)
                IN  /\ Apply(s, sl)
                    /\ req' = [req EXCEPT ![r].pc = "view", ![r].obj = s.o, ![r].diff = diff]
    /\ UNCHANGED <<calc, probes, txs, now, nreq>>

\* GET: the form is rendered; the lock stays with the operator.
Render(r) ==
    /\ req[r].pc = "view"
    /\ Finish(r, "form")
    /\ UNCHANGED <<calc, app, probes, qg, txs, now, emails, debited, ledger, nreq>>

\* POST: BaseUpdateView.post reads the object again.
PostLoad(r) ==
    /\ req[r].pc = "view"
    /\ req' = [req EXCEPT ![r].pc = "form", ![r].obj = Load(app)]
    /\ UNCHANGED <<calc, app, probes, qg, txs, now, emails, debited, ledger, nreq>>

\* ApplicationProcessForm.clean: only the rejected action validates the times.
FormIsValid(action, exp) ==
    action = "rejected" =>
        /\ NoneInt \notin {exp.sd, exp.st, exp.ed, exp.et}
        /\ ~(exp.sd > exp.ed)
        /\ ~(exp.sd = exp.ed /\ exp.st >= exp.et)

\* BaseProbeFormSet.clean: completing requires a proc_status on every probe.
FormsetIsValid(action, new_probes_statuses) ==
    action = "completed" =>
        \A i \in DOMAIN new_probes_statuses : new_probes_statuses[i] \notin {NULL, None}

\* ProcStatus.processing_options, among the statuses modelled, with the empty choice.
processing_options ==
    {NULL, TRASH, SC_NR, SC_R, RE_R, FA_R, PW_NR, PW_R, EI_C, EI_O, C_REJ, NC, LP}

\* ProbeForm.__init__: the form of a new probe offers the processing options only, so a
\* status outside them can be posted only on the form of a probe that exists.
ChoicesAreValid(old_probes, new_probes_statuses) ==
    Cardinality({i \in DOMAIN new_probes_statuses :
                    new_probes_statuses[i] \notin processing_options \cup {None}})
        <= Len(old_probes)

\* form_valid, lines 931-947, asking for probes to send before probes to reduce.
DataStatusSendFirst(old, new_probes_statuses) ==
    LET S == {new_probes_statuses[i] : i \in DOMAIN new_probes_statuses}
        need_send_flag == S \cap get_need_send_statuses # {}
        need_reduction_flag == S \cap get_need_reduction_statuses # {}
        some_sent_flag == S \cap get_sent_statuses # {}
    IN  IF need_send_flag THEN "DATA_REDUCED"
        ELSE IF need_reduction_flag THEN "NEED_REDUCTION"
        ELSE IF some_sent_flag THEN "DATA_SENT"
        ELSE "NO_DATA"

\* form_valid, lines 931-947
DataStatus(old, new_probes_statuses) ==
    LET S == {new_probes_statuses[i] : i \in DOMAIN new_probes_statuses}
        not_no_data_statuses ==
            get_need_reduction_statuses \cup get_need_send_statuses \cup get_sent_statuses
        no_data_flag == S \cap not_no_data_statuses = {}
        need_send_flag == S \cap get_need_send_statuses # {}
        need_reduction_flag == S \cap get_need_reduction_statuses # {}
        some_sent_flag == S \cap get_sent_statuses # {}
    IN  IF no_data_flag THEN "NO_DATA"
        ELSE IF some_sent_flag /\ ~(need_send_flag \/ need_reduction_flag) THEN "DATA_SENT"
        ELSE IF need_reduction_flag THEN "NEED_REDUCTION"
        ELSE IF need_send_flag /\ ~need_reduction_flag THEN "DATA_REDUCED"
        ELSE old

SPADE == "spade"
safe_str(v) == IF v = NULL \/ v = None THEN SPADE ELSE v
Aggregate(ps) == [i \in DOMAIN ps |-> safe_str(ps[i])]

\* Application.update_aggregated_fields on instance o over the Probe rows ps.
update_aggregated_fields(o, ps, row, groups) ==
    ModelSave([o EXCEPT !.probe_count = Len(ps), !.proc_status_application = Aggregate(ps)],
              row, AggFields, groups)

\* form_valid up to self.object.save(): the probes are saved (each save rebuilds the
\* aggregates on a freshly read instance), data_status and status are set, the
\* application is saved in full.  Fields the form holds and the POST omits are
\* cleaned to None when the column has no default (locked_by, locked_at).
ProcessSave(r, action, exp, qc, new_probes_statuses) ==
    LET o == req[r].obj
        perProbe == update_aggregated_fields(Load(app), new_probes_statuses, app, qg)
        n == Len(new_probes_statuses)
        row1 == IF n > 0 THEN perProbe.row ELSE app
        o1 == [Unlocked(o) EXCEPT
                        !.sd = exp.sd, !.st = exp.st, !.ed = exp.ed, !.et = exp.et,
                        !.quota_compensation = qc,
                        !.data_status = IF action = "rejected" THEN "NO_DATA"
                                        ELSE DataStatus(o.data_status, new_probes_statuses),
                        !.status = IF action \in {"completed", "rejected"} THEN action
                                   ELSE o.status]
        s == FullSave(o1, row1, qg)
        sl == FullSave(o1, row1, ledger)
    IN  /\ probes' = new_probes_statuses
        /\ app' = s.row
        /\ emails' = Queue(emails, s.mail, s.published + n * perProbe.published)
        /\ qg' = s.groups
        /\ ledger' = sl.groups
        /\ debited' = Debit(debited, s.consumed)
        /\ req' = [req EXCEPT ![r].pc = "agg", ![r].obj = s.o, ![r].action = action]

FormValid(r, actions, exps, qcs, lists) ==
    /\ req[r].pc = "form"
    /\ \E action \in actions, exp \in exps, qc \in qcs, ps \in lists :
         IF FormIsValid(action, exp) /\ FormsetIsValid(action, ps) /\ ChoicesAreValid(probes, ps)
         THEN ProcessSave(r, action, exp, qc, ps)
         ELSE /\ Finish(r, "invalid")
              /\ UNCHANGED <<app, probes, qg, emails, debited, ledger>>
    /\ UNCHANGED <<calc, txs, now, nreq>>

\* form_valid, line 963: self.object.update_aggregated_fields()
Aggregates(r) ==
    /\ req[r].pc = "agg"
    /\ LET s == update_aggregated_fields(req[r].obj, probes, app, qg)
           sl == update_aggregated_fields(req[r].obj, probes, app, ledger)
       IN  /\ Apply(s, sl)
           /\ req' = [req EXCEPT ![r].pc = "release", ![r].obj = s.o]
    /\ UNCHANGED <<calc, probes, txs, now, nreq>>

\* release_lock
release_lock(r) ==
    /\ req[r].pc = "release"
    /\ LET o1 == Unlocked(req[r].obj)
           s == NarrowSave(o1, app, LockFields, qg)
           sl == NarrowSave(o1, app, LockFields, ledger)
       IN  /\ Apply(s, sl)
           /\ Finish(r, "redirect")
    /\ UNCHANGED <<calc, probes, txs, now, nreq>>

\* ------------------------------------------------ ApplicationUpdateView
\* dispatch, line 325: self.object = self.get_object()
EditRead(r, users) ==
    /\ Begin(r)
    /\ \E u \in users :
         req' = [req EXCEPT ![r] = [IdleReq EXCEPT !.pc = "edit_dispatch", !.user = u, !.obj = Load(app)]]
    /\ UNCHANGED <<calc, app, probes, qg, txs, now, emails, debited, ledger>>

\* can_edit: operators always, the client while the status is not final.
can_edit(user, o) == user \in Operators \/ o.status \notin {"completed", "rejected", "cancelled"}

\* dispatch, lines 331-345.  locked_by is a user and oper_profile an operator profile (or
\* None), so the two are equal only when both are None: any lock younger than the cooldown
\* denies the edit, an older one is cleared with a full save.
EditDispatch(r) ==
    /\ req[r].pc = "edit_dispatch"
    /\ LET o == req[r].obj
           locked == o.locked_by # None
           diff == IF locked THEN now - o.locked_at ELSE NoneInt
       IN  IF locked /\ diff < operator_lock_cooldown
           THEN /\ Finish(r, "denied")
                /\ UNCHANGED <<calc, app, qg, emails, debited, ledger>>
           ELSE LET o1 == Unlocked(o)
                    s == IF locked THEN FullSave(o1, app, qg)
                         ELSE [o |-> o, row |-> app, mail |-> "none", published |-> 0,
                               groups |-> qg, consumed |-> 0]
                    sl == IF locked THEN FullSave(o1, app, ledger)
                          ELSE [s EXCEPT !.groups = ledger]
                IN  /\ Apply(s, sl)
                    /\ IF can_edit(req[r].user, s.o)
                       THEN req' = [req EXCEPT ![r].pc = "edit_view", ![r].obj = s.o, ![r].diff = diff]
                       ELSE Finish(r, "denied")
    /\ UNCHANGED <<calc, probes, txs, now, nreq>>

EditRender(r) ==
    /\ req[r].pc = "edit_view"
    /\ Finish(r, "form")
    /\ UNCHANGED <<calc, app, probes, qg, txs, now, emails, debited, ledger, nreq>>

\* POST: the object is read again, the form (no modelled column among its fields) is
\* saved in full.
EditLoad(r) ==
    /\ req[r].pc = "edit_view"
    /\ req' = [req EXCEPT ![r].pc = "edit_form", ![r].obj = Load(app)]
    /\ UNCHANGED <<calc, app, probes, qg, txs, now, emails, debited, ledger, nreq>>

EditSave(r) ==
    /\ req[r].pc = "edit_form"
    /\ Apply(FullSave(req[r].obj, app, qg), FullSave(req[r].obj, app, ledger))
    /\ Finish(r, "redirect")
    /\ UNCHANGED <<calc, probes, txs, now, nreq>>

\* ------------------------------------------------- mark_probes_reduced
MarkRead(r) ==
    /\ Begin(r)
    /\ req' = [req EXCEPT ![r] = [IdleReq EXCEPT !.pc = "mark", !.obj = Load(app)]]
    /\ UNCHANGED <<calc, app, probes, qg, txs, now, emails, debited, ledger>>

Changed(old, new) == Cardinality({i \in DOMAIN old : old[i] # new[i]})

\* ''.join(status for status in new_probe_statuses): an empty status adds no character,
\* and a status that is None makes join raise TypeError.
IsCharacter(status) == status # NULL
Joined(statuses) == SelectSeq(statuses, IsCharacter)
JoinRaises(statuses) == \E i \in DOMAIN statuses : statuses[i] = None

\* Application.mark_all_probe_statuses_reduced: every probe whose status changes is saved,
\* and each such save rebuilds the aggregates on this instance; then the statuses joined
\* and DATA_REDUCED are written by models.Model.save.
mark_all_probe_statuses_reduced(o, ps, row, groups) ==
    LET new == [i \in DOMAIN ps |-> get_reduced_value(ps[i])]
        k == Changed(ps, new)
        each == update_aggregated_fields(o, new, row, groups)
        o1 == [each.o EXCEPT !.proc_status_application = Joined(new),
                             !.data_status = "DATA_REDUCED"]
        last == ModelSave(o1, each.row, {"proc_status_application", "data_status"}, each.groups)
    IN  IF k = 0
        THEN [o |-> o, row |-> row, mail |-> "none", published |-> 0, groups |-> groups,
              consumed |-> 0, probes |-> ps, raised |-> FALSE]
        ELSE IF JoinRaises(new)
        THEN [each EXCEPT !.published = k * each.published]
             @@ [probes |-> new, raised |-> TRUE]
        ELSE [last EXCEPT !.published = k * each.published + last.published]
             @@ [probes |-> new, raised |-> FALSE]

MarkReduced(r) ==
    /\ req[r].pc = "mark"
    /\ LET s == mark_all_probe_statuses_reduced(req[r].obj, probes, app, qg)
           sl == mark_all_probe_statuses_reduced(req[r].obj, probes, app, ledger)
       IN  /\ Apply(s, sl)
           /\ probes' = s.probes
           /\ Finish(r, IF s.raised THEN "error" ELSE "redirect")
    /\ UNCHANGED <<calc, txs, now, nreq>>

\* ------------------------------------------------- process_json_data
\* One entry of the payload for the application, sent or not.
ImportRead(r) ==
    /\ Begin(r)
    /\ \E sent \in BOOLEAN :
         IF sent /\ app.data_status \notin {"NO_DATA", "NEED_REDUCTION", "DATA_SENT"}
         THEN req' = [req EXCEPT ![r] = [IdleReq EXCEPT !.pc = "import", !.obj = Load(app)]]
         ELSE Finish(r, "redirect")
    /\ UNCHANGED <<calc, app, probes, qg, txs, now, emails, debited, ledger>>

\* Application.mark_all_reduced_probe_statuses_posted, whose last save is Application.save
\* with update_fields.
mark_all_reduced_probe_statuses_posted(o, ps, row, groups) ==
    LET new == [i \in DOMAIN ps |-> get_posted_value(ps[i])]
        k == Changed(ps, new)
        each == update_aggregated_fields(o, new, row, groups)
        o1 == [each.o EXCEPT !.proc_status_application = Joined(new),
                             !.data_status = "DATA_SENT"]
        last == NarrowSave(o1, each.row, {"proc_status_application", "data_status"}, each.groups)
    IN  IF k = 0
        THEN [o |-> o, row |-> row, mail |-> "none", published |-> 0, groups |-> groups,
              consumed |-> 0, probes |-> ps, raised |-> FALSE]
        ELSE IF JoinRaises(new)
        THEN [each EXCEPT !.published = k * each.published]
             @@ [probes |-> new, raised |-> TRUE]
        ELSE [last EXCEPT !.published = k * each.published + last.published]
             @@ [probes |-> new, raised |-> FALSE]

\* process_json_data, lines 1434-1436; an exception ends it (the view reports it).
ImportOne(o, ps, row, groups) ==
    LET posted == mark_all_reduced_probe_statuses_posted(o, ps, row, groups)
        o1 == [posted.o EXCEPT !.reduced_data_dir = "sent_path"]
        s == FullSave(o1, posted.row, posted.groups)
    IN  IF posted.raised THEN posted
        ELSE [s EXCEPT !.published = posted.published + s.published]
             @@ [probes |-> posted.probes, raised |-> FALSE]

ImportApply(r) ==
    /\ req[r].pc = "import"
    /\ LET s == ImportOne(req[r].obj, probes, app, qg)
           sl == ImportOne(req[r].obj, probes, app, ledger)
       IN  /\ Apply(s, sl)
           /\ probes' = s.probes
           /\ Finish(r, IF s.raised THEN "error" ELSE "redirect")
    /\ UNCHANGED <<calc, txs, now, nreq>>

\* ------------------------------------------ QuotaTimeTransferCreateView
\* QuotaGroup.add_time on an instance read earlier: the row it saves, if it saves.
add_time(row, time) ==
    IF time # 0
    THEN [saved |-> TRUE, row |-> [row EXCEPT !.current_time = Quantize(@ + time)]]
    ELSE [saved |-> FALSE, row |-> row]

\* QuotaGroup.subtract_time without the change of sign.
subtract_time_unsigned(row, time) == add_time(row, time)

subtract_time(row, time) == add_time(row, -time)

\* QuotaTimeTransactionForm.clean with neither the balance nor the same-group test.
clean_unchecked(d, a, donor_quota, time_transfer) == is_active(a)

\* QuotaTimeTransactionForm: the acceptor field takes an active group other than the
\* user's own, and clean() refuses an amount above the balance read and the donor's own
\* group. hours and minutes are bounded by their fields; time_transfer is no form field,
\* so the model's MinValueValidator is not run on it.
clean(d, a, donor_quota, time_transfer) ==
    a # d /\ is_active(a) /\ ~(donor_quota.current_time < time_transfer)

\* The form is bound and validated: the donor is the quota group of the user's laboratory,
\* read when the form is built; the acceptor is read by its field; clean() checks the
\* balance read.
TransferForm(r, donors, acceptors, hours, minutes) ==
    /\ Begin(r)
    /\ \E d \in donors, a \in acceptors, h \in hours, m \in minutes :
         LET time_transfer == 300 * h + 5 * m
             donor_quota == qg[d]
         IN  IF clean(d, a, donor_quota, time_transfer)
             THEN req' = [req EXCEPT ![r] =
                            [IdleReq EXCEPT !.pc = "tx_debit", !.donor = d, !.acceptor = a,
                                            !.donor_quota = donor_quota,
                                            !.acceptor_quota = qg[a],
                                            !.time_transfer = time_transfer]]
             ELSE req' = [req EXCEPT ![r] =
                            [IdleReq EXCEPT !.resp = "invalid", !.donor = d, !.acceptor = a,
                                            !.time_transfer = time_transfer]]
    /\ UNCHANGED <<calc, app, probes, qg, txs, now, emails, debited, ledger>>

\* form_valid, line 258
TransferDebit(r) ==
    /\ req[r].pc = "tx_debit"
    /\ LET d == req[r].donor
           w == subtract_time(req[r].donor_quota, req[r].time_transfer)
       IN  /\ qg' = IF w.saved THEN [qg EXCEPT ![d] = w.row] ELSE qg
           /\ ledger' = [ledger EXCEPT ![d] = subtract_time(@, req[r].time_transfer).row]
    /\ req' = [req EXCEPT ![r].pc = "tx_credit"]
    /\ UNCHANGED <<calc, app, probes, txs, now, emails, debited, nreq>>

\* form_valid, line 259
TransferCredit(r) ==
    /\ req[r].pc = "tx_credit"
    /\ LET a == req[r].acceptor
           w == add_time(req[r].acceptor_quota, req[r].time_transfer)
       IN  /\ qg' = IF w.saved THEN [qg EXCEPT ![a] = w.row] ELSE qg
           /\ ledger' = [ledger EXCEPT ![a] = add_time(@, req[r].time_transfer).row]
    /\ req' = [req EXCEPT ![r].pc = "tx_insert"]
    /\ UNCHANGED <<calc, app, probes, txs, now, emails, debited, nreq>>

\* form_valid, line 263: ModelFormMixin.form_valid saves the form, which inserts the row.
TransferInsert(r) ==
    /\ req[r].pc = "tx_insert"
    /\ txs' = Append(txs, [quota_group_donor |-> req[r].donor,
                           quota_group_acceptor |-> req[r].acceptor,
                           time_transfer |-> Quantize(req[r].time_transfer)])
    /\ Finish(r, "redirect")
    /\ UNCHANGED <<calc, app, probes, qg, now, emails, debited, ledger, nreq>>

\* A persistence call of the transfer raises: the request ends there, and nothing it has
\* written is undone (no transaction is opened).
TransferFails(r) ==
    /\ req[r].pc \in {"tx_debit", "tx_credit", "tx_insert"}
    /\ Finish(r, "error")
    /\ UNCHANGED <<calc, app, probes, qg, txs, now, emails, debited, ledger, nreq>>

\* ------------------------------------------------ refresh_quotas_manually
\* refresh_period_time: the queryset is evaluated once ...
ResetRead(r) ==
    /\ Begin(r)
    /\ req' = [req EXCEPT ![r] = [IdleReq EXCEPT !.pc = "reset", !.qgs = qg]]
    /\ UNCHANGED <<calc, app, probes, qg, txs, now, emails, debited, ledger>>

\* ... and every group read is reset and saved.
ResetWrite(r) ==
    /\ req[r].pc = "reset"
    /\ qg' = [g \in Groups |-> IF update_time_on_period(g) /\ Metered(g)
                               THEN reset_quota(g, req[r].qgs[g]) ELSE qg[g]]
    /\ ledger' = refresh_period_time(ledger)
    /\ Finish(r, "redirect")
    /\ UNCHANGED <<calc, app, probes, txs, now, emails, debited, nreq>>

\* ------------------------------------------------------- ResetQuotaView
\* ResetQuotaView.post: one group is read, reset and saved.
ResetQuotaView(r) ==
    /\ Begin(r)
    /\ \E g \in Groups :
         /\ qg' = [qg EXCEPT ![g] = reset_quota(g, @)]
         /\ ledger' = [ledger EXCEPT ![g] = reset_quota(g, @)]
         /\ req' = [req EXCEPT ![r] = [IdleReq EXCEPT !.resp = "redirect",
                                                     !.action = "reset_quota", !.group = g]]
    /\ UNCHANGED <<calc, app, probes, txs, now, emails, debited>>

\* Application.save of some application of a laboratory of group g, whose time_spent
\* changes by hours: Laboratory.consume_time(hours).
HoursInputs == {150, -150}

LabConsumes(r) ==
    /\ Begin(r)
    /\ \E g \in Groups, hours \in HoursInputs :
         /\ qg' = consume_time_of(qg, g, hours)
         /\ ledger' = consume_time_of(ledger, g, hours)
         /\ req' = [req EXCEPT ![r] = [IdleReq EXCEPT !.resp = "redirect",
                                                     !.action = "consume_time", !.group = g]]
    /\ UNCHANGED <<calc, app, probes, txs, now, emails, debited>>

\* ------------------------------------------------------ Application.priority
\* a / b to the nearest integer, for a >= 0 and b > 0.
Rounded(a, b) == (2 * a + b) \div (2 * b)

\* Fourteen days, in hours.
Fortnight == 336

\* Application.priority at time t, in hundredths: deadline and t count hours.
priority(asap_priority, deadline, t) ==
    IF asap_priority THEN 10000
    ELSE IF deadline = NoneInt THEN 0
    ELSE LET time_left == deadline - t
         IN  IF time_left <= 0 THEN 10100
             ELSE IF time_left > Fortnight THEN 0
             ELSE LET score == Rounded(10000 * (Fortnight - time_left), Fortnight)
                  IN  IF score > 10000 THEN 10000 ELSE score

\* The deadlines of the applications evaluated: none, past, near and far.
Deadlines == {NoneInt, 0, 1, 2, 3, 100, 336, 338, 400}

\* The property is read on an application with the given asap_priority and deadline.
Priority ==
    /\ calc.fn = "priority"
    /\ calc' = [calc EXCEPT !.at = now,
                            !.result = priority(calc.asap_priority, calc.deadline, now)]
    /\ UNCHANGED <<app, probes, qg, txs, now, emails, debited, ledger, nreq, req>>

\* --------------------------------------------------------- Probe.ProcStatus
\* The classmethods of ProcStatus are called one after the other, each on the status the
\* one before returned: calc is the status started from, the calls made, the status
\* reached and the last answer of need_to_post.
MaxCalls == 2

Called(name, value, answer) ==
    /\ calc.fn = "ProcStatus"
    /\ Len(calc.calls) < MaxCalls
    /\ calc' = [calc EXCEPT !.calls = Append(@, name), !.value = value, !.answer = answer]
    /\ UNCHANGED <<app, probes, qg, txs, now, emails, debited, ledger, nreq, req>>

GetReducedValue ==
    /\ calc.fn = "ProcStatus"
    /\ Called("get_reduced_value", get_reduced_value(calc.value), calc.answer)

GetPostedValue ==
    /\ calc.fn = "ProcStatus"
    /\ Called("get_posted_value", get_posted_value(calc.value), calc.answer)

NeedToPost ==
    /\ calc.fn = "ProcStatus"
    /\ Called("need_to_post", calc.value, need_to_post(calc.value))

\* -------------------------------------------------------- NotificationIssue
\* An issue has at most MaxRelations NotificationRelations rows; each has its logic, its
\* is_active flag and the numbers of pending, accepted and rejected notifications.
MaxRelations == 2

NotificationRelations ==
    [logic_dependence : {"&", "|"}, is_active : BOOLEAN,
     pending_notifications : 0..1, accepted_notifications : 0..1,
     rejected_notifications : 0..1]

\* The body of the loop of is_action_allowed: does this relation make it return False?
returns_false(notification_relation) ==
    IF notification_relation.logic_dependence = "&"
    THEN LET has_rejected == notification_relation.rejected_notifications > 0
             has_pending == notification_relation.pending_notifications > 0
         IN  has_rejected \/ has_pending
    ELSE IF notification_relation.logic_dependence = "|"
    THEN LET has_accepted == notification_relation.accepted_notifications > 0
         IN  ~has_accepted
    ELSE FALSE

\* .filter(is_active=True)
active(relations) == SelectSeq(relations, LAMBDA nr : nr.is_active)

RECURSIVE loop(_, _)
\* The for loop from relation i on: False at the first relation that fails, else True.
loop(notification_relations, i) ==
    IF i > Len(notification_relations) THEN TRUE
    ELSE IF returns_false(notification_relations[i]) THEN FALSE
    ELSE loop(notification_relations, i + 1)

\* is_action_allowed answering after the first active relation.
is_action_allowed_first(relations) ==
    LET notification_relations == active(relations)
    IN  notification_relations = <<>> \/ ~returns_false(notification_relations[1])

\* NotificationIssue.is_action_allowed over the issue's relations.
is_action_allowed(relations) == loop(active(relations), 1)

\* The property is read on the issue.
IsActionAllowed ==
    /\ calc.fn = "is_action_allowed"
    /\ ~calc.read
    /\ calc' = [calc EXCEPT !.read = TRUE, !.result = is_action_allowed(calc.relations)]
    /\ UNCHANGED <<app, probes, qg, txs, now, emails, debited, ledger, nreq, req>>

\* ------------------------------------------- check_if_period_needs_refresh
\* check_if_period_needs_refresh() is called on the tables as they stand between two
\* requests; the rows it read are kept with its answer.
PeriodCheck ==
    /\ \A r \in Req : req[r].pc = "idle"
    /\ calc' = [fn |-> "check_if_period_needs_refresh", groups |-> qg, row |-> app,
                result |-> check_if_period_needs_refresh(qg, app)]
    /\ UNCHANGED <<app, probes, qg, txs, now, emails, debited, ledger, nreq, req>>

\* ------------------------------------------------------- specifications
\* is_action_allowed read on issues with zero to MaxRelations relations.
InitIssue ==
    /\ Rows
    /\ calc \in {[fn |-> "is_action_allowed", relations |-> rs, read |-> FALSE,
                  result |-> FALSE] :
                    rs \in UNION {[1..n -> NotificationRelations] : n \in 0..MaxRelations}}

NextIssue == IsActionAllowed

SpecIssue == InitIssue /\ [][NextIssue]_vars

\* The status classmethods over the whole alphabet.
InitStatus ==
    /\ Rows
    /\ calc \in {[fn |-> "ProcStatus", status |-> x, calls |-> <<>>, value |-> x,
                  answer |-> FALSE] : x \in ProcStatus}

NextStatus == GetReducedValue \/ GetPostedValue \/ NeedToPost

SpecStatus == InitStatus /\ [][NextStatus]_vars

\* Application.priority read as the clock advances.
InitPriority ==
    /\ Rows
    /\ calc \in {[fn |-> "priority", asap_priority |-> a, deadline |-> d,
                  at |-> NoneInt, result |-> NoneInt] : a \in BOOLEAN, d \in Deadlines}

NextPriority == Tick \/ Priority

SpecPriority == InitPriority /\ [][NextPriority]_vars

\* The quota regimes: every group, metered or not, reset, debited and party to transfers.
NextRegime ==
    \/ ResetQuotaView("r1")
    \/ LabConsumes("r1")
    \/ ResetRead("r1")
    \/ ResetWrite("r1")
    \/ TransferForm("r1", Groups, Groups, {0, 1}, {0})
    \/ TransferDebit("r1")
    \/ TransferCredit("r1")
    \/ TransferInsert("r1")

SpecRegime == Init /\ [][NextRegime]_vars

OneTime == {[sd |-> 1, st |-> 600, ed |-> 1, et |-> 690]}

\* The application's life, one request at a time: processing, edits, reduction, import.
Next ==
    \/ DispatchRead("r1", {"op1"})
    \/ DispatchLock("r1")
    \/ Render("r1")
    \/ PostLoad("r1")
    \/ FormValid("r1", Actions, {NoTimes} \cup OneTime, {NoneInt}, ProbeLists)
    \/ Aggregates("r1")
    \/ release_lock("r1")
    \/ EditRead("r1", {"op1", "client"})
    \/ EditDispatch("r1")
    \/ EditRender("r1")
    \/ EditLoad("r1")
    \/ EditSave("r1")
    \/ MarkRead("r1")
    \/ MarkReduced("r1")
    \/ ImportRead("r1")
    \/ ImportApply("r1")

Spec == Init /\ [][Next]_vars

\* The data of the probes: processing with the sent statuses among the posted ones,
\* reduction, import.
DataLists == UNION {[1..n -> {SC_NR, SC_R, SC_RS}] : n \in 0..MaxProbes}

NextData ==
    \/ DispatchRead("r1", {"op1"})
    \/ DispatchLock("r1")
    \/ Render("r1")
    \/ PostLoad("r1")
    \/ FormValid("r1", Actions, OneTime, {NoneInt}, DataLists)
    \/ Aggregates("r1")
    \/ release_lock("r1")
    \/ MarkRead("r1")
    \/ MarkReduced("r1")
    \/ ImportRead("r1")
    \/ ImportApply("r1")

SpecData == Init /\ [][NextData]_vars

\* Experiment times and compensation edited over several requests, as the clock advances.
NextTime ==
    \/ Tick
    \/ DispatchRead("r1", {"op1"})
    \/ DispatchLock("r1")
    \/ Render("r1")
    \/ PostLoad("r1")
    \/ FormValid("r1", {"save", "completed"}, ExpInputs, QcInputs, {<<>>})
    \/ Aggregates("r1")
    \/ release_lock("r1")
    \/ EditRead("r1", {"op1", "client"})
    \/ EditDispatch("r1")
    \/ EditRender("r1")
    \/ EditLoad("r1")
    \/ EditSave("r1")

SpecTime == Init /\ [][NextTime]_vars

\* Experiments of 20 and 90 minutes, with and without a compensation of minus 30 minutes.
ShortTimes ==
    { [sd |-> 1, st |-> 600, ed |-> 1, et |-> 620],
      [sd |-> 1, st |-> 600, ed |-> 1, et |-> 690] }
SignedQcInputs == {NoneInt, -30}

NextCompensation ==
    \/ DispatchRead("r1", {"op1"})
    \/ DispatchLock("r1")
    \/ Render("r1")
    \/ PostLoad("r1")
    \/ FormValid("r1", {"save", "completed"}, ShortTimes, SignedQcInputs, {<<>>})
    \/ Aggregates("r1")
    \/ release_lock("r1")

SpecCompensation == Init /\ [][NextCompensation]_vars

\* Probes with and without a processing status, saved, reduced and imported.
StatusLists == {<<>>, <<NULL>>, <<SC_NR>>, <<SC_R>>, <<NULL, SC_NR>>, <<SC_R, NULL>>}

NextAggregate ==
    \/ DispatchRead("r1", {"op1"})
    \/ DispatchLock("r1")
    \/ Render("r1")
    \/ PostLoad("r1")
    \/ FormValid("r1", {"save"}, {NoTimes}, {NoneInt}, StatusLists)
    \/ Aggregates("r1")
    \/ release_lock("r1")
    \/ MarkRead("r1")
    \/ MarkReduced("r1")
    \/ ImportRead("r1")
    \/ ImportApply("r1")

SpecAggregate == Init /\ [][NextAggregate]_vars

\* Experiments that leave the balance positive and one night experiment that overdraws
\* it, the application saved or completed, and the refresh predicate asked in between.
PeriodTimes ==
    { NoTimes,
      [sd |-> 1, st |-> 600, ed |-> 1, et |-> 690],
      [sd |-> 1, st |-> 600, ed |-> 2, et |-> 690] }

NextPeriod ==
    \/ DispatchRead("r1", {"op1"})
    \/ DispatchLock("r1")
    \/ Render("r1")
    \/ PostLoad("r1")
    \/ FormValid("r1", {"save", "completed"}, PeriodTimes, {NoneInt}, {<<>>})
    \/ Aggregates("r1")
    \/ release_lock("r1")
    \/ PeriodCheck

SpecPeriod == Init /\ [][NextPeriod]_vars

\* Probes with a reduced status, and probes whose status was posted empty, imported.
PostedLists == {<<>>, <<SC_R>>, <<SC_NR>>, <<None>>, <<SC_R, None>>, <<SC_R, SC_RS>>}

NextImport ==
    \/ DispatchRead("r1", {"op1"})
    \/ DispatchLock("r1")
    \/ Render("r1")
    \/ PostLoad("r1")
    \/ FormValid("r1", {"save"}, {NoTimes}, {NoneInt}, PostedLists)
    \/ Aggregates("r1")
    \/ release_lock("r1")
    \/ ImportRead("r1")
    \/ ImportApply("r1")

SpecImport == Init /\ [][NextImport]_vars

\* Up to two probes of mixed statuses, saved and completed.
MixedLists == UNION {[1..n -> {SC_NR, SC_R, SC_RS, TRASH}] : n \in 0..2}

NextMixed ==
    \/ DispatchRead("r1", {"op1"})
    \/ DispatchLock("r1")
    \/ Render("r1")
    \/ PostLoad("r1")
    \/ FormValid("r1", Actions, OneTime, {NoneInt}, MixedLists)
    \/ Aggregates("r1")
    \/ release_lock("r1")

SpecMixed == Init /\ [][NextMixed]_vars

\* Two operators and the clock.
LockStep(r) ==
    \/ DispatchRead(r, Operators)
    \/ DispatchLock(r)
    \/ Render(r)
    \/ PostLoad(r)
    \/ FormValid(r, Actions, {NoTimes} \cup OneTime, {NoneInt}, {<<>>})
    \/ Aggregates(r)
    \/ release_lock(r)

NextLock == Tick \/ LockStep("r1")
SpecLock == Init /\ [][NextLock]_vars

NextLockConc == Tick \/ \E r \in Req : LockStep(r)
SpecLockConc == Init /\ [][NextLockConc]_vars

\* Transfers between the quota groups.
Hours == {0, 1}
Minutes == {0, 10, 30}

TransferStep(r) ==
    \/ TransferForm(r, MeteredGroups, MeteredGroups, Hours, Minutes)
    \/ TransferDebit(r)
    \/ TransferCredit(r)
    \/ TransferInsert(r)

NextTransfer == TransferStep("r1")
SpecTransfer == Init /\ [][NextTransfer]_vars

NextTransferFail == TransferStep("r1") \/ TransferFails("r1")
SpecTransferFail == Init /\ [][NextTransferFail]_vars

NextTransferConc == \E r \in Req : TransferStep(r)
SpecTransferConc == Init /\ [][NextTransferConc]_vars

\* Everything that writes a group row, interleaved.
QuotaStep(r) ==
    \/ TransferStep(r)
    \/ ResetRead(r)
    \/ ResetWrite(r)
    \/ DispatchRead(r, {"op1"})
    \/ DispatchLock(r)
    \/ Render(r)
    \/ PostLoad(r)
    \/ FormValid(r, {"save"}, OneTime, {NoneInt}, {<<>>})
    \/ Aggregates(r)
    \/ release_lock(r)

NextQuotaConc == \E r \in Req : QuotaStep(r)
SpecQuotaConc == Init /\ [][NextQuotaConc]_vars

\* ------------------------------------------------------------ the lock
\* A request leaves dispatch in this step.
Dispatches(r) == req[r].pc = "dispatch" /\ req'[r].pc # "dispatch"

\* The stored lock belongs to a user other than u and is younger than the cooldown.
HeldAgainst(u) ==
    app.locked_by # None /\ app.locked_by # u /\ now - app.locked_at < operator_lock_cooldown

\* C1: whatever the interleaving of two operators' dispatches, a request proceeds into
\* the workflow only if, at the moment it writes its lock, the stored lock is not another
\* user's lock younger than the cooldown (the acquisition acts as one atomic conditional
\* update).
C1_AtomicAcquire ==
    [][\A r \in Req : (Dispatches(r) /\ req'[r].pc = "view") => ~HeldAgainst(req[r].user)]_vars

\* C3: entering while another user's lock is younger than the cooldown is rejected and
\* leaves locked_by and locked_at as they were.
C3_RejectedWithinCooldown ==
    [][\A r \in Req : (Dispatches(r) /\ HeldAgainst(req[r].user))
            => /\ req'[r].pc = "idle" /\ req'[r].resp = "denied"
               /\ app'.locked_by = app.locked_by /\ app'.locked_at = app.locked_at]_vars

C3_Witness ==
    /\ req["r1"].resp = "denied"
    /\ app.locked_by = "op2" /\ app.locked_at = 0 /\ now = 1

\* C4: entry by user R when the application is unlocked, locked by R, or locked by another
\* user for at least the cooldown (exactly the cooldown included) proceeds, and leaves
\* locked_by = R and locked_at = the time of entry.
C4_LockTaken ==
    [][\A r \in Req : (Dispatches(r) /\ ~HeldAgainst(req[r].user))
            => /\ req'[r].pc = "view"
               /\ app'.locked_by = req[r].user /\ app'.locked_at = now]_vars

\* A lock of op2 stolen by op1 at an age equal to the cooldown.
C4_Witness ==
    /\ req["r1"].pc = "view" /\ req["r1"].user = "op1"
    /\ req["r1"].diff = operator_lock_cooldown
    /\ app.locked_by = "op1" /\ app.locked_at = now

\* ------------------------------------------------------- the time debit
\* C2: over any sequence of full saves that change the experiment times or the quota
\* compensation of an application of a metered group, the hours debited from the group
\* add up to the time_spent recorded: each save debits the difference, and the group's
\* balance has gone down by exactly the recorded time_spent.
C2_DebitIsTimeSpent ==
    /\ debited.total = app.time_spent
    /\ qg[LabGroup].current_time = InitialTime(LabGroup) - app.time_spent

\* A later save that shortened the experiment has given hours back.
C2_Witness ==
    /\ debited.last < 0
    /\ app.time_spent > 0
    /\ debited.total = app.time_spent

\* ----------------------------------------------------------- transfers
AllIdle == \A r \in Req : req[r].pc = "idle"

\* C5: an accepted transfer lowers the donor's balance by exactly t, raises the
\* acceptor's by exactly t and inserts exactly one QuotaTimeTransaction row, t being the
\* time_transfer that row records (hours + minutes/60 to two decimals); the sum of the two
\* balances is what it was when the request read them.
C5_TransferMoves ==
    [][\A r \in Req :
         /\ (req[r].pc \in {"tx_debit", "tx_credit"} /\ req'[r] # req[r]) => txs' = txs
         /\ (req[r].pc = "tx_insert" /\ req'[r].resp = "redirect") =>
              LET d == req[r].donor
                  a == req[r].acceptor
                  t == Quantize(req[r].time_transfer)
              IN  /\ t <= req[r].donor_quota.current_time /\ d # a
                  /\ qg'[d].current_time = req[r].donor_quota.current_time - t
                  /\ qg'[a].current_time = req[r].acceptor_quota.current_time + t
                  /\ qg'[d].current_time + qg'[a].current_time
                       = req[r].donor_quota.current_time + req[r].acceptor_quota.current_time
                  /\ txs' = Append(txs, [quota_group_donor |-> d, quota_group_acceptor |-> a,
                                         time_transfer |-> t])]_vars

\* One hour and ten minutes (1.17 h) have gone from g1 to g2.
C5_Witness ==
    /\ AllIdle
    /\ txs = <<[quota_group_donor |-> "g1", quota_group_acceptor |-> "g2", time_transfer |-> 351]>>
    /\ qg["g1"].current_time = InitialTime("g1") - 351
    /\ qg["g2"].current_time = InitialTime("g2") + 351

RECURSIVE Audited(_, _)
\* The balance of group g that the first n audit rows account for.
Audited(g, n) ==
    IF n = 0 THEN InitialTime(g)
    ELSE Audited(g, n - 1)
         + (IF txs[n].quota_group_acceptor = g THEN txs[n].time_transfer ELSE 0)
         - (IF txs[n].quota_group_donor = g THEN txs[n].time_transfer ELSE 0)

\* C6: the debit, the credit and the audit row of a transfer take effect together or not
\* at all: once every request has ended, failed ones included, each balance is the one
\* the audit rows account for.
C6_AllOrNothing ==
    AllIdle => \A g \in Groups : qg[g].current_time = Audited(g, Len(txs))

\* C7: two transfers from one donor never both rely on a balance read before the other's
\* debit: the amount a transfer is about to take is covered by the donor's stored
\* balance, and no stored balance is below zero.
C7_NoStaleCheck ==
    /\ \A r \in Req : req[r].pc = "tx_debit" =>
           req[r].time_transfer <= qg[req[r].donor].current_time
    /\ \A g \in Groups : qg[g].current_time >= 0

\* C8: when requests that change one group's current_time interleave, the balance left
\* once they have all ended reflects every change (it is the balance that results from
\* applying each change atomically).
C8_NoLostUpdate ==
    AllIdle => \A g \in Groups : qg[g].current_time = ledger[g].current_time

\* ------------------------------------------------------------ the status
\* C9: once status is rejected or completed, no operation changes it.
C9_Terminal ==
    [][app.status \in {"rejected", "completed"} => app'.status = app.status]_vars

Sent(kind) == emails'[kind] - emails[kind]

\* C10: a step queues the completed (rejected) e-mail once when it moves status into
\* completed (rejected) from another status, and not at all when it leaves status as it
\* was.
C10_MailOncePerTransition ==
    [][/\ Sent("completed") = (IF app'.status = "completed" /\ app.status # "completed" THEN 1 ELSE 0)
       /\ Sent("rejected") = (IF app'.status = "rejected" /\ app.status # "rejected" THEN 1 ELSE 0)]_vars

\* A completed application saved again in a later request: one e-mail.
C10_Witness ==
    /\ app.status = "completed" /\ app.prev_status = "completed"
    /\ emails.completed = 1 /\ emails.rejected = 0
    /\ req["r1"].resp = "redirect"

\* ------------------------------------------------------- the data status
\* C11: a step queues the data-published e-mail once when it moves data_status into
\* DATA_SENT from another value, in a processing save as in the import, and not at all
\* when it leaves data_status as it was (aggregate rebuild, lock release, later saves).
C11_PublishedOncePerTransition ==
    [][Sent("published") =
         (IF app'.data_status = "DATA_SENT" /\ app.data_status # "DATA_SENT" THEN 1 ELSE 0)]_vars

\* C12: an application whose status is rejected has data_status NO_DATA, in every state
\* reached through processing saves, reductions and imports.
C12_RejectedHasNoData ==
    app.status = "rejected" => app.data_status = "NO_DATA"

Rank(data_status) ==
    CASE data_status = "NO_DATA" -> 0
      [] data_status = "NEED_REDUCTION" -> 1
      [] data_status = "DATA_REDUCED" -> 2
      [] data_status = "DATA_SENT" -> 3

\* The processing save of this step has the action rejected.
Rejects == \E r \in Req : req[r].pc = "form" /\ req'[r].pc = "agg" /\ req'[r].action = "rejected"

\* C13: apart from a rejection, no step moves data_status to an earlier value of the
\* order NO_DATA, NEED_REDUCTION, DATA_REDUCED, DATA_SENT.
C13_DataStatusForward ==
    [][Rank(app'.data_status) < Rank(app.data_status) => Rejects]_vars

\* C14: a processing request that ends the operator's work (the POST is accepted and
\* answered with the redirect), whatever its action, leaves locked_by and locked_at null.
C14_LockReleased ==
    [][\A r \in Req :
         (req[r].pc = "release" /\ req'[r].pc = "idle")
            => /\ req'[r].resp = "redirect"
               /\ app'.locked_by = None /\ app'.locked_at = NoneInt]_vars

\* The work ended by each of the three actions, the lock null after each.
C14_Witness ==
    /\ req["r1"].resp = "redirect"
    /\ app.status = "rejected" /\ app.prev_status = "completed"
    /\ app.locked_by = None /\ app.locked_at = NoneInt

\* ------------------------------------------------------ the quota regimes
\* C15: no step (consume_time, add_time through a transfer, reset_quota) changes the
\* current_time of a group whose period_time is None or -1.
C15_UnmeteredUntouched ==
    [][\A g \in Groups : ~Metered(g) => qg'[g].current_time = qg[g].current_time]_vars

\* The balance a reset of group g gives a row of balance current_time.
ResetBalance(g, current_time) ==
    IF max_time(g) # NoneInt /\ current_time + period_time(g) > max_time(g)
    THEN max_time(g) ELSE current_time + period_time(g)

\* The groups reset_quota is run on in this step.
ResetIn(g) ==
    \/ req["r1"].pc = "reset" /\ req'["r1"].pc = "idle"
    \/ nreq' = nreq + 1 /\ req'["r1"].action = "reset_quota" /\ req'["r1"].group = g

\* C16: reset_quota on a metered group sets current_time to
\* min(current_time + period_time, max_time), uncapped when max_time is null, and
\* quota_reset_time to that new balance.
C16_ResetCapped ==
    [][\A g \in Groups : (Metered(g) /\ ResetIn(g)) =>
            /\ qg'[g].current_time = ResetBalance(g, qg[g].current_time)
            /\ qg'[g].quota_reset_time = qg'[g].current_time]_vars

\* g1 (2 h, period 2 h, cap 3 h) has been reset to the cap, not to 4 h.
C16_Witness ==
    /\ req["r1"].action = "reset_quota" /\ req["r1"].group = "g1"
    /\ nreq = 1
    /\ qg["g1"].current_time = max_time("g1") /\ qg["g1"].quota_reset_time = max_time("g1")

\* ------------------------------------------------------ transfer validation
\* The transfer form is posted in this step by request r.
Posts(r) == req[r].pc = "idle" /\ nreq' = nreq + 1 /\ req'[r].donor # None

\* C17: a transfer request whose amount exceeds the donor's current_time, or whose
\* acceptor is the donor's own group, ends as a validation error with both balances
\* unchanged and no audit row created.
C17_InvalidTransferRejected ==
    [][\A r \in Req :
         (/\ Posts(r)
          /\ \/ req'[r].time_transfer > qg[req'[r].donor].current_time
             \/ req'[r].acceptor = req'[r].donor)
         => /\ req'[r].pc = "idle" /\ req'[r].resp = "invalid"
            /\ qg' = qg /\ txs' = txs]_vars

\* After one transfer g2 holds 1 h 10 min less than the 1 h 30 min then asked of it: the
\* request is refused and the balances are those the first transfer left.
C17_Witness ==
    /\ req["r1"].resp = "invalid" /\ req["r1"].pc = "idle"
    /\ req["r1"].donor = "g2" /\ req["r1"].acceptor = "g1" /\ req["r1"].time_transfer = 450
    /\ Len(txs) = 1
    /\ qg["g2"].current_time < 450
    /\ qg["g2"].current_time = Audited("g2", 1) /\ qg["g1"].current_time = Audited("g1", 1)

\* C18: every QuotaTimeTransaction row has time_transfer > 0 and a donor different from
\* its acceptor.
C18_RowsPositive ==
    \A i \in 1..Len(txs) :
        txs[i].time_transfer > 0 /\ txs[i].quota_group_donor # txs[i].quota_group_acceptor

\* --------------------------------------------------------------- time_spent
\* C19: the recorded time_spent of an application is never negative, whatever experiment
\* times and quota_compensation the saves carry.
C19_TimeSpentNonNegative == app.time_spent >= 0

\* --------------------------------------------------------------- aggregates
\* An operation that rebuilds or rewrites the aggregates ends in this step.
Rewrites ==
    \/ req["r1"].pc = "agg" /\ req'["r1"].pc = "release"
    \/ req["r1"].pc = "mark" /\ req'["r1"].pc = "idle"
    \/ req["r1"].pc = "import" /\ req'["r1"].pc = "idle"

\* C20: after update_aggregated_fields, mark_all_probe_statuses_reduced and
\* mark_all_reduced_probe_statuses_posted the aggregate of the processing statuses has
\* probe_count positions, one per probe in number order, the sentinel standing for an
\* empty status.
C20_AggregateAligned ==
    [][Rewrites =>
         /\ app'.probe_count = Len(probes')
         /\ Len(app'.proc_status_application) = app'.probe_count
         /\ \A i \in 1..Len(probes') :
                i <= Len(app'.proc_status_application)
                /\ app'.proc_status_application[i] = safe_str(probes'[i])]_vars

\* ----------------------------------------------------------------- priority
\* C21: the priority of an application whose deadline is at or before the current time
\* is 101, whether or not asap_priority is set.
C21_OverdueBeatsAsap ==
    (calc.fn = "priority" /\ calc.at # NoneInt /\ calc.deadline # NoneInt
       /\ calc.deadline <= calc.at)
    => calc.result = 10100

\* ------------------------------------------------------- the period refresh
\* C22: the period-needs-refresh predicate is true for a main metered group exactly when
\* its balance is non-negative or no submitted application belongs to a laboratory of
\* the group.
C22_RefreshPredicate ==
    calc.fn = "check_if_period_needs_refresh" =>
        \A g \in Groups : (main(g) /\ Metered(g)) =>
            (calc.result <=> \/ calc.groups[g].current_time >= 0
                             \/ ~(LabGroup = g /\ calc.row.status = "submitted"))

\* C27: when a save moves the application's status from submitted to another status and
\* the period-needs-refresh predicate holds on the rows the save leaves, reset_quota has
\* run on every group with update_time_on_period: the balance of a metered group other
\* than the laboratory's has grown by its period, and every metered group's
\* quota_reset_time is its balance.
C27_RefreshOnLeavingSubmitted ==
    [][(/\ app.status = "submitted" /\ app'.status # "submitted"
        /\ check_if_period_needs_refresh(qg, app'))
       => \A g \in Groups : (update_time_on_period(g) /\ Metered(g)) =>
             /\ qg'[g].quota_reset_time = qg'[g].current_time
             /\ g # LabGroup => qg'[g].current_time = ResetBalance(g, qg[g].current_time)]_vars

\* ---------------------------------------------------------------- the import
\* The import handles an entry for the application in this step.
Imports == req["r1"].pc = "import" /\ req'["r1"].pc = "idle"

\* The import is asked about the application in this step and passes it over.
Skips == req["r1"].pc = "idle" /\ req'["r1"].pc = "idle" /\ req'["r1"].resp = "redirect"
         /\ nreq' = nreq + 1 /\ req'["r1"].action = None /\ req'["r1"].donor = None

\* C23: an entry with sent == true for an application whose data_status is DATA_REDUCED
\* marks its probes posted, sets data_status to DATA_SENT and records sent_path; an
\* application the import passes over is unchanged, and so is one imported before.
C23_ImportPosts ==
    [][/\ Imports =>
            /\ app.data_status = "DATA_REDUCED"
            /\ probes' = [i \in DOMAIN probes |-> get_posted_value(probes[i])]
            /\ app'.data_status = "DATA_SENT"
            /\ app'.reduced_data_dir = "sent_path"
       /\ Skips => app' = app /\ probes' = probes]_vars

\* -------------------------------------------------------- the status codes
\* C24: get_reduced_value maps SC_NR to SC_R, PW_NR to PW_R and RE_R to SC_R, leaves
\* every other status unchanged, and applied to its own result changes nothing.
C24_ReducedValue ==
    [][(calc.fn = "ProcStatus" /\ calc'.calls = Append(calc.calls, "get_reduced_value")) =>
         /\ calc.value = "<" => calc'.value = "."
         /\ calc.value = "(" => calc'.value = ";"
         /\ calc.value = "!" => calc'.value = "."
         /\ calc.value \notin {"<", "(", "!"} => calc'.value = calc.value
         /\ calc.calls = <<"get_reduced_value">> => calc'.value = calc.value]_vars

\* A repeated reduction has been reduced twice and is a reduced single-crystal experiment.
C24_Witness ==
    /\ calc.fn = "ProcStatus" /\ calc.status = RE_R
    /\ calc.calls = <<"get_reduced_value", "get_reduced_value">>
    /\ calc.value = SC_R

\* C25: need_to_post is true exactly for SC_R and PW_R, and these are exactly the
\* statuses get_posted_value changes, to SC_RS and PW_RS; every other status is a fixed
\* point of get_posted_value.
C25_PostedValue ==
    [][/\ (calc.fn = "ProcStatus" /\ calc'.calls = Append(calc.calls, "need_to_post")) =>
            (calc'.answer <=> calc.value \in {".", ";"})
       /\ (calc.fn = "ProcStatus" /\ calc'.calls = Append(calc.calls, "get_posted_value")) =>
            /\ calc.value = "." => calc'.value = ">"
            /\ calc.value = ";" => calc'.value = ")"
            /\ calc.value \notin {".", ";"} => calc'.value = calc.value
            /\ calc.calls = <<"need_to_post">> => (calc.answer <=> calc'.value # calc.value)]_vars

\* A reduced powder experiment was found in need of posting and has been posted.
C25_Witness ==
    /\ calc.fn = "ProcStatus" /\ calc.status = PW_R
    /\ calc.calls = <<"need_to_post", "get_posted_value">>
    /\ calc.answer /\ calc.value = PW_RS

\* ------------------------------------------------------------ notifications
\* C26: is_action_allowed is the conjunction over the issue's active relations of: for
\* an '&' relation, no rejected and no pending responses; for a '|' relation, at least
\* one accepted response.  Inactive relations are ignored; no active relation allows.
C26_ActionAllowed ==
    (calc.fn = "is_action_allowed" /\ calc.read) =>
        (calc.result <=>
            \A i \in DOMAIN calc.relations :
                LET nr == calc.relations[i]
                IN  nr.is_active =>
                      /\ nr.logic_dependence = "&" =>
                            nr.rejected_notifications = 0 /\ nr.pending_notifications = 0
                      /\ nr.logic_dependence = "|" => nr.accepted_notifications >= 1)

\* An active '|' relation with an acceptance passes and the active '&' relation after it,
\* with a pending response, refuses.
C26_Witness ==
    /\ calc.fn = "is_action_allowed" /\ calc.read /\ ~calc.result
    /\ Len(calc.relations) = 2
    /\ calc.relations[1].is_active /\ calc.relations[1].logic_dependence = "|"
    /\ calc.relations[1].accepted_notifications = 1
    /\ calc.relations[2].is_active /\ calc.relations[2].logic_dependence = "&"
    /\ calc.relations[2].pending_notifications = 1
    /\ calc.relations[2].rejected_notifications = 0

\* ---------------------------------------------------- the recorded duration
\* C28: once a full save has stored four experiment dates and times, the time_spent
\* recorded is the duration compute_time_spent gives for them, a duration of zero hours
\* included.
C28_TimeSpentIsComputed ==
    NoneInt \notin {app.sd, app.st, app.ed, app.et} =>
        app.time_spent
          = compute_time_spent(app.sd, app.st, app.ed, app.et, app.quota_compensation)

\* --------------------------------------------------- data_status of a save
\* The data_status the statuses of the saved probes stand for.
Stands(statuses) ==
    LET S == {statuses[i] : i \in DOMAIN statuses}
    IN  IF S \cap {"<", "(", "!", ".", ";", ">", ")"} = {} THEN "NO_DATA"
        ELSE IF S \cap {"<", "(", "!"} # {} THEN "NEED_REDUCTION"
        ELSE IF S \cap {".", ";"} # {} THEN "DATA_REDUCED"
        ELSE "DATA_SENT"

\* A processing POST is accepted in this step, with an action other than rejected.
Saves == req["r1"].pc = "form" /\ req'["r1"].pc = "agg" /\ req'["r1"].action # "rejected"

\* C29: after a processing save that does not reject, data_status is NO_DATA when no
\* saved probe needs reduction, needs sending or was sent (also with no probes),
\* NEED_REDUCTION when any probe needs reduction, otherwise DATA_REDUCED when any probe
\* needs sending, otherwise DATA_SENT.
C29_DataStatusOfProbes ==
    [][Saves => app'.data_status = Stands(probes')]_vars

\* A save of one probe to reduce and one reduced probe leaves NEED_REDUCTION.
C29_Witness ==
    /\ req["r1"].pc = "agg" /\ req["r1"].action = "save"
    /\ probes = <<SC_R, SC_NR>>
    /\ app.data_status = "NEED_REDUCTION"

\* ------------------------------------------------------ resets never take
\* C30: reset_quota on a metered group with a non-negative period_time never decreases
\* current_time, whatever resets, transfers and consumption came before.
C30_ResetNeverDecreases ==
    [][\A g \in Groups : (Metered(g) /\ period_time(g) >= 0 /\ ResetIn(g)) =>
            qg'[g].current_time >= qg[g].current_time]_vars

====
